---- MODULE Spec2Model ----
(***************************************************************************)
(* Model of src/sequence.rs: the Lengthen, Shorten, Split and Concat       *)
(* implementations for GenericArray<T, N>.                                 *)
(*                                                                         *)
(* A GenericArray<T, N> is a block of N contiguous slots.  A slot holds an *)
(* element or is uninitialized.  Elements are natural numbers >= 1, each   *)
(* one standing for one owned value of type T (its identity is its value). *)
(* Offsets are 0-based as in the source; TLA+ sequences are 1-based, so    *)
(* the slot at offset o of a block is mem[o + 1].                          *)
(***************************************************************************)
EXTENDS Naturals, Integers, Sequences, FiniteSets, Bags

\* Largest element identity the caller ever constructs.
MaxId == 4
\* Longest array the caller constructs by a literal before the first call.
InitLen == 3
\* Most arrays the caller holds at one time.
MaxArrays == 2

\* Content of a slot that was never written.
Uninit == 0
\* "No element" in a field of the call record.
NoElem == Uninit

Elem == 1..MaxId

VARIABLES arrays, elems, destroyed, nextId, call, prev

vars == <<arrays, elems, destroyed, nextId, call, prev>>

----------------------------------------------------------------------------
(* Raw memory primitives *)

\* mem::uninitialized() for a GenericArray of n slots; writes counts the
\* ptr::write calls that covered each slot.
Uninitialized(n) ==
    [mem |-> [i \in 1..n |-> Uninit], writes |-> [i \in 1..n |-> 0]]

\* ptr::write(buf.as_mut_ptr().offset(off) as *mut GenericArray<T, Len(src)>, src)
PtrWriteArray(buf, off, src) ==
    LET covered(i) == i > off /\ i <= off + Len(src)
    IN  [mem    |-> [i \in 1..Len(buf.mem) |->
                        IF covered(i) THEN src[i - off] ELSE buf.mem[i]],
         writes |-> [i \in 1..Len(buf.mem) |->
                        IF covered(i) THEN buf.writes[i] + 1 ELSE buf.writes[i]]]

\* ptr::write(buf.as_mut_ptr().offset(off) as *mut T, e)
PtrWriteElem(buf, off, e) ==
    [mem    |-> [i \in 1..Len(buf.mem) |-> IF i = off + 1 THEN e ELSE buf.mem[i]],
     writes |-> [i \in 1..Len(buf.mem) |->
                    IF i = off + 1 THEN buf.writes[i] + 1 ELSE buf.writes[i]]]

\* A slot outside the allocation holds no initialized element.
Slot(mem, i) == IF i \in DOMAIN mem THEN mem[i] ELSE Uninit

\* Mutant: the block is read from the base pointer, the offset is dropped.
PtrReadArrayNoOffset(mem, off, len) == [i \in 1..len |-> Slot(mem, i)]

\* ptr::read(p.offset(off) as *const GenericArray<T, len>)
PtrReadArray(mem, off, len) == [i \in 1..len |-> Slot(mem, off + i)]

\* Mutant: the element is read one slot too early.
PtrReadElemOffByOne(mem, off) == Slot(mem, off)

\* ptr::read(p.offset(off) as *const T)
PtrReadElem(mem, off) == Slot(mem, off + 1)

\* Mutant: mem::forget(self) is missing, so the destructor of self runs over
\* the elements that were already read out of it.
MemForgetMissing(self) == self

\* mem::forget(self): the destructor of self does not run, so no element of
\* self is destroyed when the function returns.
MemForget(self) == << >>

----------------------------------------------------------------------------
(* The six transforms.  Each returns its outputs, the per-slot write counts *)
(* of the buffer it built (if it built one) and the elements whose         *)
(* destructor runs when its locals go out of scope.                        *)

\* Mutant: append places the new element in front.
appendAtFront(self, last) ==
    LET longer0 == Uninitialized(Len(self) + 1)
        longer1 == PtrWriteElem(longer0, 0, last)
        longer2 == PtrWriteArray(longer1, 1, self)
    IN  [out |-> longer2.mem, writes |-> longer2.writes, dropped |-> << >>]

\* impl Lengthen for GenericArray<T, N>: fn append(self, last: T)
append(self, last) ==
    LET N       == Len(self)
        longer0 == Uninitialized(N + 1)
        longer1 == PtrWriteArray(longer0, 0, self)
        longer2 == PtrWriteElem(longer1, N, last)
    IN  [out |-> longer2.mem, writes |-> longer2.writes, dropped |-> << >>]

\* Mutant: prepend places the new element at the back.
prependAtBack(self, first) ==
    LET longer0 == Uninitialized(Len(self) + 1)
        longer1 == PtrWriteArray(longer0, 0, self)
        longer2 == PtrWriteElem(longer1, Len(self), first)
    IN  [out |-> longer2.mem, writes |-> longer2.writes, dropped |-> << >>]

\* Mutant: prepend writes self at offset 0, over the new element.
prependOverlap(self, first) ==
    LET longer0 == Uninitialized(Len(self) + 1)
        longer1 == PtrWriteElem(longer0, 0, first)
        longer2 == PtrWriteArray(longer1, 0, self)
    IN  [out |-> longer2.mem, writes |-> longer2.writes, dropped |-> << >>]

\* impl Lengthen for GenericArray<T, N>: fn prepend(self, first: T)
prepend(self, first) ==
    LET N       == Len(self)
        longer0 == Uninitialized(N + 1)
        longer1 == PtrWriteElem(longer0, 0, first)
        longer2 == PtrWriteArray(longer1, 1, self)
    IN  [out |-> longer2.mem, writes |-> longer2.writes, dropped |-> << >>]

\* Mutant: pop_back takes the element from the front.
pop_backFromFront(self) ==
    [init |-> PtrReadArray(self, 1, Len(self) - 1), last |-> PtrReadElem(self, 0),
     dropped |-> MemForget(self)]

\* impl Shorten for GenericArray<T, N>: fn pop_back(self), N >= 1
pop_back(self) ==
    LET N        == Len(self)
        last_off == N - 1
        init     == PtrReadArray(self, 0, N - 1)
        last     == PtrReadElem(self, last_off)
    IN  [init |-> init, last |-> last, dropped |-> MemForget(self)]

\* Mutant: pop_front takes the element from the back.
pop_frontFromBack(self) ==
    [head |-> PtrReadElem(self, Len(self) - 1), tail |-> PtrReadArray(self, 0, Len(self) - 1),
     dropped |-> MemForget(self)]

\* impl Shorten for GenericArray<T, N>: fn pop_front(self), N >= 1
pop_front(self) ==
    LET N    == Len(self)
        head == PtrReadElem(self, 0)
        tail == PtrReadArray(self, 1, N - 1)
    IN  [head |-> head, tail |-> tail, dropped |-> MemForget(self)]

\* Mutant: the tail pointer is head_ptr.offset(1), as in pop_front.
splitTailAtOne(self, K) ==
    [head |-> PtrReadArray(self, 0, K), tail |-> PtrReadArray(self, 1, Len(self) - K),
     dropped |-> MemForget(self)]

\* impl Split<T, K> for GenericArray<T, N>: fn split(self), K <= N
split(self, K) ==
    LET N    == Len(self)
        head == PtrReadArray(self, 0, K)
        tail == PtrReadArray(self, K, N - K)
    IN  [head |-> head, tail |-> tail, dropped |-> MemForget(self)]

\* Mutant: rest is written at offset M::to_usize() instead of N::to_usize().
concatAtM(self, rest) ==
    LET output0 == Uninitialized(Len(self) + Len(rest))
        output1 == PtrWriteArray(output0, 0, self)
        output2 == PtrWriteArray(output1, Len(rest), rest)
    IN  [out |-> output2.mem, writes |-> output2.writes, dropped |-> << >>]

\* impl Concat<T, M> for GenericArray<T, N>: fn concat(self, rest)
concat(self, rest) ==
    LET N       == Len(self)
        M       == Len(rest)
        output0 == Uninitialized(N + M)
        output1 == PtrWriteArray(output0, 0, self)
        output2 == PtrWriteArray(output1, N, rest)
    IN  [out |-> output2.mem, writes |-> output2.writes, dropped |-> << >>]

----------------------------------------------------------------------------
(* The caller: it holds a bag of live arrays and a set of live loose       *)
(* elements, and calls one transform at a time.  Every argument is moved   *)
(* into the call; every result is moved out to the caller.                 *)

One(a) == SetToBag({a})

Held == BagToSet(arrays)

\* Slots of live arrays and loose elements that hold element e.
Owners(e) ==
    Cardinality({t \in UNION {{<<a, c, i>> : c \in 1..CopiesIn(a, arrays), i \in DOMAIN a}
                                : a \in Held} : t[1][t[3]] = e})
    + (IF e \in elems THEN 1 ELSE 0)

RECURSIVE SumLen(_)
SumLen(S) == IF S = {} THEN 0
             ELSE LET a == CHOOSE x \in S : TRUE
                  IN  CopiesIn(a, arrays) * Len(a) + SumLen(S \ {a})

\* Number of live elements: slots of live arrays plus loose elements.
LiveCount == SumLen(Held) + Cardinality(elems)

\* Elements the caller may pass as a T argument: one it holds, or one it
\* constructs for the call.
Args == elems \cup (IF nextId <= MaxId THEN {nextId} ELSE {})

NoCall == [op |-> "none", self |-> << >>, rest |-> << >>, elem |-> NoElem, k |-> 0,
           out |-> << >>, out2 |-> << >>, outElem |-> NoElem, writes |-> << >>,
           fresh |-> FALSE, liveBefore |-> 0]

\* The arrays the last call returned, in the order it returned them.
Returned(c) ==
    IF c.op = "none" THEN << >>
    ELSE IF c.op = "split" THEN <<c.out, c.out2>>
    ELSE <<c.out>>

\* History: the last call, remembered by the next call exactly when that call
\* takes as its array arguments what the last call returned.
Chain(ins) == IF ins = Returned(call) THEN call ELSE NoCall

Init ==
    /\ \E n \in 0..InitLen : /\ arrays = One([i \in 1..n |-> i])
                             /\ nextId = n + 1
    /\ elems = {}
    /\ destroyed = << >>
    /\ call = NoCall
    /\ prev = NoCall

\* let b = a.append(e) / a.prepend(e)
Grow(op, a, e, r) ==
    /\ arrays' = (arrays (-) One(a)) (+) One(r.out)
    /\ elems' = elems \ {e}
    /\ nextId' = IF e = nextId THEN nextId + 1 ELSE nextId
    /\ destroyed' = destroyed \o r.dropped
    /\ call' = [NoCall EXCEPT !.op = op, !.self = a, !.elem = e, !.out = r.out,
                              !.writes = r.writes, !.fresh = (e = nextId),
                              !.liveBefore = LiveCount]
    /\ prev' = Chain(<<a>>)

DoAppend == \E a \in Held : \E e \in Args : Grow("append", a, e, append(a, e))

DoPrepend == \E a \in Held : \E e \in Args : Grow("prepend", a, e, prepend(a, e))

\* let (init, last) = a.pop_back(): callable only when N >= 1 (N: Sub<B1>)
DoPopBack ==
    \E a \in Held :
        /\ Len(a) >= 1
        /\ LET r == pop_back(a)
           IN  /\ arrays' = (arrays (-) One(a)) (+) One(r.init)
               /\ elems' = elems \cup {r.last}
               /\ destroyed' = destroyed \o r.dropped
               /\ call' = [NoCall EXCEPT !.op = "pop_back", !.self = a, !.out = r.init,
                                         !.outElem = r.last, !.liveBefore = LiveCount]
        /\ prev' = Chain(<<a>>)
        /\ UNCHANGED nextId

\* let (head, tail) = a.pop_front(): callable only when N >= 1 (N: Sub<B1>)
DoPopFront ==
    \E a \in Held :
        /\ Len(a) >= 1
        /\ LET r == pop_front(a)
           IN  /\ arrays' = (arrays (-) One(a)) (+) One(r.tail)
               /\ elems' = elems \cup {r.head}
               /\ destroyed' = destroyed \o r.dropped
               /\ call' = [NoCall EXCEPT !.op = "pop_front", !.self = a, !.out = r.tail,
                                         !.outElem = r.head, !.liveBefore = LiveCount]
        /\ prev' = Chain(<<a>>)
        /\ UNCHANGED nextId

\* let (head, tail) = Split::<_, K>::split(a): callable only when K <= N (N: Sub<K>)
DoSplit ==
    /\ BagCardinality(arrays) < MaxArrays
    /\ \E a \in Held : \E K \in 0..Len(a) :
        LET r == split(a, K)
        IN  /\ arrays' = (arrays (-) One(a)) (+) One(r.head) (+) One(r.tail)
            /\ destroyed' = destroyed \o r.dropped
            /\ call' = [NoCall EXCEPT !.op = "split", !.self = a, !.k = K, !.out = r.head,
                                      !.out2 = r.tail, !.liveBefore = LiveCount]
            /\ prev' = Chain(<<a>>)
    /\ UNCHANGED <<elems, nextId>>

\* let c = a.concat(b)
DoConcat ==
    /\ \E a \in Held : \E b \in BagToSet(arrays (-) One(a)) :
        LET r == concat(a, b)
        IN  /\ arrays' = (arrays (-) One(a) (-) One(b)) (+) One(r.out)
            /\ destroyed' = destroyed \o r.dropped
            /\ call' = [NoCall EXCEPT !.op = "concat", !.self = a, !.rest = b,
                                      !.out = r.out, !.writes = r.writes,
                                      !.liveBefore = LiveCount]
            /\ prev' = Chain(<<a, b>>)
    /\ UNCHANGED <<elems, nextId>>

Next == DoAppend \/ DoPrepend \/ DoPopBack \/ DoPopFront \/ DoSplit \/ DoConcat

Spec == Init /\ [][Next]_vars

TypeOK ==
    /\ IsABag(arrays)
    /\ elems \subseteq 0..MaxId
    /\ nextId \in 1..(MaxId + 1)

----------------------------------------------------------------------------
(* Properties *)

\* C1: grow and shrink at the same end are inverses.  When pop_back is called
\* on the array that append(s, e) just returned it returns (s, e), and when
\* pop_front is called on the array that prepend(s, e) just returned it
\* returns (e, s); s may be empty.
InverseGrowShrink ==
    /\ (call.op = "pop_back" /\ prev.op = "append" /\ call.self = prev.out)
          => (call.out = prev.self /\ call.outElem = prev.elem)
    /\ (call.op = "pop_front" /\ prev.op = "prepend" /\ call.self = prev.out)
          => (call.outElem = prev.elem /\ call.out = prev.self)

InverseGrowShrinkWitness ==
    /\ call.op = "pop_back" /\ prev.op = "append" /\ call.self = prev.out
    /\ prev.self = <<1, 2, 3>> /\ prev.elem = 4

\* C2: split and concat are inverses at matching pivots.  concat applied to
\* the two outputs of split<K>(s) returns s, for every pivot K; split<N>
\* applied to concat(s1, s2) with N the length of s1 returns (s1, s2).
SplitConcatInverse ==
    /\ (call.op = "concat" /\ prev.op = "split"
          /\ call.self = prev.out /\ call.rest = prev.out2)
          => call.out = prev.self
    /\ (call.op = "split" /\ prev.op = "concat"
          /\ call.self = prev.out /\ call.k = Len(prev.self))
          => (call.out = prev.self /\ call.out2 = prev.rest)

SplitConcatInverseWitness ==
    /\ call.op = "split" /\ prev.op = "concat" /\ call.self = prev.out
    /\ call.k = Len(prev.self)
    /\ Len(prev.self) = 1 /\ Len(prev.rest) = 2

\* C3: append(seq, last) returns N + 1 elements: seq's elements at the same
\* offsets, then last at offset N.
AppendContract ==
    call.op = "append" =>
        /\ Len(call.out) = Len(call.self) + 1
        /\ \A i \in 1..Len(call.self) : call.out[i] = call.self[i]
        /\ call.out[Len(call.self) + 1] = call.elem

AppendWitness ==
    /\ call.op = "append" /\ call.self = <<1, 2, 3>> /\ call.elem = 4
    /\ call.out = <<1, 2, 3, 4>>

\* C4: prepend(seq, first) returns N + 1 elements: first at offset 0, then
\* seq's element i at offset i + 1.
PrependContract ==
    call.op = "prepend" =>
        /\ Len(call.out) = Len(call.self) + 1
        /\ call.out[1] = call.elem
        /\ \A i \in 1..Len(call.self) : call.out[i + 1] = call.self[i]

PrependWitness ==
    /\ call.op = "prepend" /\ call.self = <<1, 2, 3>> /\ call.elem = 4
    /\ call.out = <<4, 1, 2, 3>>

\* C5: pop_back(seq), N >= 1, returns seq's first N - 1 elements in order
\* and seq's last element.
PopBackContract ==
    call.op = "pop_back" =>
        /\ Len(call.self) >= 1
        /\ Len(call.out) = Len(call.self) - 1
        /\ \A i \in 1..Len(call.out) : call.out[i] = call.self[i]
        /\ call.outElem = call.self[Len(call.self)]

PopBackWitness ==
    /\ call.op = "pop_back" /\ call.self = <<1, 2, 3, 4>>
    /\ call.out = <<1, 2, 3>> /\ call.outElem = 4

\* C6: pop_front(seq), N >= 1, returns seq's first element and seq's
\* remaining N - 1 elements in order.
PopFrontContract ==
    call.op = "pop_front" =>
        /\ Len(call.self) >= 1
        /\ Len(call.out) = Len(call.self) - 1
        /\ call.outElem = call.self[1]
        /\ \A i \in 1..Len(call.out) : call.out[i] = call.self[i + 1]

PopFrontWitness ==
    /\ call.op = "pop_front" /\ call.self = <<1, 2, 3, 4>>
    /\ call.outElem = 1 /\ call.out = <<2, 3, 4>>

\* C7: split<K>(seq), 0 <= K <= N, returns seq's elements [0, K) and seq's
\* elements [K, N), each in order; K = 0 gives (empty, seq) and K = N gives
\* (seq, empty).
SplitContract ==
    call.op = "split" =>
        /\ call.k \in 0..Len(call.self)
        /\ Len(call.out) = call.k
        /\ Len(call.out2) = Len(call.self) - call.k
        /\ \A i \in 1..Len(call.out) : call.out[i] = call.self[i]
        /\ \A i \in 1..Len(call.out2) : call.out2[i] = call.self[call.k + i]
        /\ call.k = 0 => (call.out = << >> /\ call.out2 = call.self)
        /\ call.k = Len(call.self) => (call.out = call.self /\ call.out2 = << >>)

SplitWitness ==
    /\ call.op = "split" /\ call.self = <<1, 2, 3, 4>> /\ call.k = 2
    /\ call.out = <<1, 2>> /\ call.out2 = <<3, 4>>

\* C8: concat(seq, rest) returns N + M elements: seq's elements in order,
\* then rest's elements in order; with an empty input the output equals the
\* other input.
ConcatContract ==
    call.op = "concat" =>
        /\ Len(call.out) = Len(call.self) + Len(call.rest)
        /\ \A i \in 1..Len(call.self) : call.out[i] = call.self[i]
        /\ \A i \in 1..Len(call.rest) : call.out[Len(call.self) + i] = call.rest[i]
        /\ call.self = << >> => call.out = call.rest
        /\ call.rest = << >> => call.out = call.self

ConcatWitness ==
    /\ call.op = "concat" /\ call.self = <<1, 2>> /\ call.rest = <<3, 4>>
    /\ call.out = <<1, 2, 3, 4>>

\* Elements moved into the last call.
Sources(c) ==
    {c.self[i] : i \in DOMAIN c.self} \cup {c.rest[i] : i \in DOMAIN c.rest}
    \cup (IF c.elem = NoElem THEN {} ELSE {c.elem})

\* C9: a buffer built by append, prepend or concat is returned with every
\* slot written exactly once and holding an element, each source element in
\* exactly one slot; no live array has an uninitialized slot.
BufferFullyWritten ==
    /\ call.op \in {"append", "prepend", "concat"} =>
          /\ Len(call.writes) = Len(call.out)
          /\ Len(call.out) = Len(call.self) + Len(call.rest)
                                + (IF call.op = "concat" THEN 0 ELSE 1)
          /\ \A i \in 1..Len(call.out) : call.writes[i] = 1 /\ call.out[i] # Uninit
          /\ \A e \in Sources(call) :
                Cardinality({i \in 1..Len(call.out) : call.out[i] = e}) = 1
    /\ \A a \in Held : \A i \in DOMAIN a : a[i] # Uninit

BufferFullyWrittenWitness ==
    /\ call.op = "prepend" /\ Len(call.self) = 3
    /\ call.writes = <<1, 1, 1, 1>>

\* Elements the caller has constructed so far.
Constructed == 1..(nextId - 1)

\* C10: every constructed element is owned by exactly one live value (one
\* slot of one live array, or one loose element), none was destroyed, and
\* the last call changed the number of live elements by +1 (append or
\* prepend of a newly constructed element) or by 0; its outputs hold one
\* element more than its input array for append and prepend, and as many as
\* its input arrays for the other four.
SingleOwner ==
    /\ \A e \in Constructed : Owners(e) = 1
    /\ \A e \in Elem \ Constructed : Owners(e) = 0
    /\ destroyed = << >>
    /\ call.op # "none" =>
          /\ LiveCount = call.liveBefore
                           + (IF call.op \in {"append", "prepend"} /\ call.fresh
                              THEN 1 ELSE 0)
          /\ Len(call.out) + Len(call.out2) + (IF call.outElem = NoElem THEN 0 ELSE 1)
               = Len(call.self) + Len(call.rest)
                 + (IF call.op \in {"append", "prepend"} THEN 1 ELSE 0)

SingleOwnerWitness ==
    /\ call.op = "concat" /\ prev.op = "split"
    /\ elems # {} /\ nextId = MaxId + 1

====
